---------------------------- MODULE Spec2Model ----------------------------
(* Error translation layer of aiowamp (src/aiowamp/errors.py).              *)
(*                                                                          *)
(* Inbound : register_error_response / error_to_exception over ERR_RESP_MAP *)
(* Outbound: InvocationError, set_invocation_error and                      *)
(*           exception_to_invocation_error over EXC_URI_MAP and the         *)
(*           "__invocation_error__" attribute of exception objects.         *)
EXTENDS Integers, Sequences, FiniteSets, TLC

VARIABLES ERR_RESP_MAP, regLog, lastIn, EXC_URI_MAP, heap, setCalls, lastOut

vars == <<ERR_RESP_MAP, regLog, lastIn, EXC_URI_MAP, heap, setCalls, lastOut>>
inVars == <<ERR_RESP_MAP, regLog, lastIn>>
outVars == <<EXC_URI_MAP, heap, setCalls, lastOut>>

-----------------------------------------------------------------------------
(* Bounds                                                                   *)

\* successful register_error_response calls followed in one behaviour
MaxRegs == 3
\* exception objects alive in one behaviour
MaxObjs == 3

-----------------------------------------------------------------------------
(* Values                                                                   *)

\* Optional[...] fields: None, or a present container (a sequence).
None == [some |-> FALSE, v |-> <<>>]
Some(s) == [some |-> TRUE, v |-> s]

\* Python truthiness of an Optional container: None and empty are falsy.
Truthy(o) == o.some /\ o.v # <<>>

\* `value or None`
OrNone(o) == IF Truthy(o) THEN o ELSE None

\* raw strings handed in as URIs; "" is not a URI
RawURIs == {"com.a", "com.b", ""}

\* aiowamp.URI.as_uri: validating conversion of a raw string to a URI.
as_uri(raw) == [ok |-> raw # "", uri |-> raw]

\* aiowamp.uri.RUNTIME_ERROR
RUNTIME_ERROR == "wamp.error.runtime_error"

\* exceptions that `except LookupError` catches
IsLookupError(kind) == kind \in {"LookupError", "KeyError", "IndexError"}

\* aiowamp.msg.Error messages received from the transport, by identity
MsgIds == {"m1", "m2", "m3"}

MsgOf(m) ==
    CASE m = "m1" -> [error |-> "com.a", args |-> <<"1", "2">>,
                      kwargs |-> << <<"x", "3">> >>, details |-> <<>>]
      [] m = "m2" -> [error |-> "com.b", args |-> <<>>,
                      kwargs |-> <<>>, details |-> <<>>]
      [] OTHER    -> [error |-> "com.a", args |-> <<>>,
                      kwargs |-> <<>>, details |-> << <<"d", "1">> >>]

-----------------------------------------------------------------------------
(* Inbound registry                                                         *)

\* what may be handed to register_error_response as the factory
Callables == {"CustomError", "AuthError", "raise_KeyError", "raise_ValueError"}
NonCallables == {"not_callable"}
Factories == Callables \cup NonCallables

callable(f) == f \in Callables

NoExc == [kind |-> "", message |-> ""]

Returned(obj, f) == [status |-> "returned", exc |-> "", obj |-> obj, called |-> f]
Raised(kind, f) == [status |-> "raised", exc |-> kind, obj |-> NoExc, called |-> f]

\* ErrorResponse(message)
ErrorResponse(m) == [kind |-> "ErrorResponse", message |-> m]

\* ErrorFactory: a callable taking the message, returning an exception
\* (an exception class called with the message) or failing itself.
FactoryCall(f, m) ==
    CASE f = "raise_KeyError"   -> Raised("KeyError", f)
      [] f = "raise_ValueError" -> Raised("ValueError", f)
      [] OTHER                  -> Returned([kind |-> f, message |-> m], f)

\* URIMap.__setitem__: store under the exact key, replacing a prior value
URIMapSet(M, uri, value) ==
    [u \in DOMAIN M \cup {uri} |-> IF u = uri THEN value ELSE M[u]]

\* URIMap.__getitem__: the stored value, or a LookupError
URIMapGet(M, uri) ==
    IF uri \in DOMAIN M THEN [ok |-> TRUE, value |-> M[uri]]
    ELSE [ok |-> FALSE, value |-> ""]

get_exception_factory(M, uri) == URIMapGet(M, uri)

\* register_error_response storing before it checks callable(cls)
RegisterStoresFirst(M, raw, f) ==
    LET u == as_uri(raw) IN
    IF ~u.ok THEN [map |-> M, status |-> "raised", exc |-> "InvalidURI"]
    ELSE IF ~callable(f)
         THEN [map |-> URIMapSet(M, u.uri, f), status |-> "raised", exc |-> "TypeError"]
         ELSE [map |-> URIMapSet(M, u.uri, f), status |-> "returned", exc |-> ""]

\* register_error_response with setdefault in place of the assignment
RegisterKeepsFirst(M, raw, f) ==
    LET u == as_uri(raw) IN
    IF ~u.ok THEN [map |-> M, status |-> "raised", exc |-> "InvalidURI"]
    ELSE IF ~callable(f) THEN [map |-> M, status |-> "raised", exc |-> "TypeError"]
    ELSE IF u.uri \in DOMAIN M THEN [map |-> M, status |-> "returned", exc |-> ""]
    ELSE [map |-> URIMapSet(M, u.uri, f), status |-> "returned", exc |-> ""]

\* register_error_response(uri)(cls): the registry afterwards and the outcome
register_error_response(M, raw, f) ==
    LET u == as_uri(raw) IN
    IF ~u.ok THEN [map |-> M, status |-> "raised", exc |-> "InvalidURI"]
    ELSE IF ~callable(f) THEN [map |-> M, status |-> "raised", exc |-> "TypeError"]
    ELSE [map |-> URIMapSet(M, u.uri, f), status |-> "returned", exc |-> ""]

\* error_to_exception without its `except LookupError`
ErrorToExceptionUncaught(M, m) ==
    LET look == get_exception_factory(M, MsgOf(m).error) IN
    IF ~look.ok THEN Raised("KeyError", "")
    ELSE FactoryCall(look.value, m)

\* error_to_exception(message): the whole try block, factory call included,
\* is guarded by `except LookupError`.
error_to_exception(M, m) ==
    LET look == get_exception_factory(M, MsgOf(m).error) IN
    IF ~look.ok THEN Returned(ErrorResponse(m), "")
    ELSE LET r == FactoryCall(look.value, m) IN
         IF r.status = "raised" /\ IsLookupError(r.exc)
         THEN Returned(ErrorResponse(m), look.value)
         ELSE r

NoCallIn ==
    [op |-> "none", uri |-> "", factory |-> "", msg |-> "",
     out |-> Raised("", ""), before |-> <<>>]

InitInbound ==
    /\ ERR_RESP_MAP = <<>>
    /\ regLog = <<>>
    /\ lastIn = NoCallIn

\* a call register_error_response(raw)(f)
Register(raw, f) ==
    /\ Len(regLog) < MaxRegs
    /\ LET r == register_error_response(ERR_RESP_MAP, raw, f) IN
       /\ ERR_RESP_MAP' = r.map
       /\ regLog' = IF r.status = "returned" THEN Append(regLog, <<as_uri(raw).uri, f>>) ELSE regLog
       /\ lastIn' = [op |-> "register", uri |-> raw, factory |-> f, msg |-> "",
                     out |-> [status |-> r.status, exc |-> r.exc, obj |-> NoExc,
                              called |-> ""],
                     before |-> ERR_RESP_MAP]
    /\ UNCHANGED outVars

\* a call error_to_exception(m)
ErrorToException(m) ==
    /\ lastIn' = [op |-> "error_to_exception", uri |-> MsgOf(m).error, factory |-> "",
                  msg |-> m, out |-> error_to_exception(ERR_RESP_MAP, m),
                  before |-> ERR_RESP_MAP]
    /\ UNCHANGED <<ERR_RESP_MAP, regLog>>
    /\ UNCHANGED outVars

-----------------------------------------------------------------------------
(* Outbound: exception objects                                              *)

\* exception classes raised by application code (not InvocationError)
Kinds == {"ValueError", "KeyError"}

\* the exceptions application code raises: ValueError("1") and KeyError()
ExcInputs ==
    {[kind |-> "ValueError", args |-> <<"1">>], [kind |-> "KeyError", args |-> <<>>]}

\* an object of the heap.  `excargs` is BaseException.args; uri, args, kwargs
\* and details are the slots of InvocationError (None on other classes, which
\* do not have them); `attached` holds the value of the
\* "__invocation_error__" attribute: {} when the object has no such attribute.
ExcObject(kind, excargs) ==
    [kind |-> kind, excargs |-> excargs, uri |-> "",
     args |-> None, kwargs |-> None, details |-> None, attached |-> {}]

isInvocationError(o) == o.kind = "InvocationError"

\* the four slots of an InvocationError
Fields(o) == [uri |-> o.uri, args |-> o.args, kwargs |-> o.kwargs, details |-> o.details]

\* InvocationError.__init__ without the `or None`
InitKeepsEmpty(raw, args, kwargs, details) ==
    LET u == as_uri(raw) IN
    [ok |-> u.ok,
     obj |-> [kind |-> "InvocationError", excargs |-> <<>>, uri |-> u.uri,
              args |-> Some(args), kwargs |-> kwargs, details |-> details,
              attached |-> {}]]

\* InvocationError.__init__(uri, *args, kwargs=, details=)
InvocationError(raw, args, kwargs, details) ==
    LET u == as_uri(raw) IN
    [ok |-> u.ok,
     obj |-> [kind |-> "InvocationError", excargs |-> <<>>, uri |-> u.uri,
              args |-> OrNone(Some(args)), kwargs |-> OrNone(kwargs),
              details |-> OrNone(details), attached |-> {}]]

\* InvocationError._init forgetting the uri
CopyAllButUri(self, other) ==
    [self EXCEPT !.args = other.args, !.kwargs = other.kwargs,
                 !.details = other.details]

\* InvocationError._init(other)
_init(self, other) ==
    [self EXCEPT !.uri = other.uri, !.args = other.args,
                 !.kwargs = other.kwargs, !.details = other.details]

\* set_invocation_error(exc, err): the heap afterwards
set_invocation_error(h, x, err) ==
    IF isInvocationError(h[x]) THEN [h EXCEPT ![x] = _init(h[x], h[err])]
    ELSE [h EXCEPT ![x].attached = {err}]

\* get_exception_uri finding nothing
GetExceptionUriMisses(T, kind) == [ok |-> FALSE, uri |-> ""]

\* get_exception_uri(type(exc)): exact lookup in EXC_URI_MAP
get_exception_uri(T, kind) ==
    IF kind \in DOMAIN T THEN [ok |-> TRUE, uri |-> T[kind]]
    ELSE [ok |-> FALSE, uri |-> ""]

\* the outcome of building InvocationError(uri, *excargs) as a new object
Build(h, uri, excargs) ==
    LET new == InvocationError(uri, excargs, None, None) IN
    IF new.ok THEN [status |-> "returned", ret |-> Len(h) + 1, heap |-> Append(h, new.obj)]
    ELSE [status |-> "raised", ret |-> 0, heap |-> h]

\* exception_to_invocation_error asking the outbound table before the attribute
ConvertRegistryFirst(h, T, x) ==
    IF isInvocationError(h[x]) THEN [status |-> "returned", ret |-> x, heap |-> h]
    ELSE LET look == get_exception_uri(T, h[x].kind) IN
         IF look.ok THEN Build(h, look.uri, h[x].excargs)
         ELSE IF h[x].attached # {}
              THEN [status |-> "returned", ret |-> CHOOSE e \in h[x].attached : TRUE,
                    heap |-> h]
              ELSE Build(h, RUNTIME_ERROR, h[x].excargs)

\* exception_to_invocation_error building InvocationError(uri) without exc.args
ConvertDropsArgs(h, T, x) ==
    IF isInvocationError(h[x]) THEN [status |-> "returned", ret |-> x, heap |-> h]
    ELSE IF h[x].attached # {}
         THEN [status |-> "returned", ret |-> CHOOSE e \in h[x].attached : TRUE,
               heap |-> h]
         ELSE LET look == get_exception_uri(T, h[x].kind)
                  uri == IF look.ok THEN look.uri ELSE RUNTIME_ERROR
              IN Build(h, uri, <<>>)

\* exception_to_invocation_error returning a copy of an InvocationError
ConvertCopies(h, T, x) ==
    IF isInvocationError(h[x])
    THEN [status |-> "returned", ret |-> Len(h) + 1, heap |-> Append(h, h[x])]
    ELSE IF h[x].attached # {}
         THEN [status |-> "returned", ret |-> CHOOSE e \in h[x].attached : TRUE,
               heap |-> h]
         ELSE LET look == get_exception_uri(T, h[x].kind)
                  uri == IF look.ok THEN look.uri ELSE RUNTIME_ERROR
              IN Build(h, uri, h[x].excargs)

\* exception_to_invocation_error(exc): the object returned and the heap
\* afterwards (a new InvocationError is a new object of the heap)
exception_to_invocation_error(h, T, x) ==
    IF isInvocationError(h[x]) THEN [status |-> "returned", ret |-> x, heap |-> h]
    ELSE IF h[x].attached # {}
         THEN [status |-> "returned", ret |-> CHOOSE e \in h[x].attached : TRUE,
               heap |-> h]
         ELSE LET look == get_exception_uri(T, h[x].kind)
                  uri == IF look.ok THEN look.uri ELSE RUNTIME_ERROR
              IN Build(h, uri, h[x].excargs)

-----------------------------------------------------------------------------
(* Outbound: calls                                                          *)

\* the calls InvocationError(uri, *args, kwargs=, details=) that are made:
\* a URI with no arguments and empty kwargs and details; everything given;
\* a string that is no URI
CtorInputs ==
    {[uri |-> "com.a", args |-> <<>>, kwargs |-> Some(<<>>), details |-> Some(<<>>)],
     [uri |-> "com.b", args |-> <<"1">>, kwargs |-> Some(<< <<"x", "3">> >>),
      details |-> Some(<< <<"d", "1">> >>)],
     [uri |-> "", args |-> <<>>, kwargs |-> None, details |-> None]}

\* URIs the outbound table maps exception classes to
OutURIs == {"com.a"}

\* the states EXC_URI_MAP can be in: any classes registered, each with a URI
ExcUriMaps == UNION {[D -> OutURIs] : D \in SUBSET Kinds}

ObjIds == 1..Len(heap)

NoObject == ExcObject("", <<>>)

NoGiven == [uri |-> "", args |-> <<>>, kwargs |-> None, details |-> None]

NoCallOut ==
    [op |-> "none", x |-> 0, err |-> 0, prev |-> 0, ret |-> 0, status |-> "returned",
     given |-> NoGiven, xBefore |-> NoObject, errBefore |-> NoObject,
     prevBefore |-> NoObject, nBefore |-> 0]

\* setCalls[x]: the set_invocation_error calls that attached an error to x:
\* the err of the latest one, and whether that call replaced another error
NoCalls == [last |-> 0, replaced |-> FALSE]

Remember(calls, err) == [last |-> err, replaced |-> calls.last \notin {0, err}]

InitOutbound ==
    /\ EXC_URI_MAP \in ExcUriMaps
    /\ heap = <<>>
    /\ setCalls = <<>>
    /\ lastOut = NoCallOut

\* application code builds an exception: kind(*args)
NewException(kind, args) ==
    /\ Len(heap) < MaxObjs
    /\ heap' = Append(heap, ExcObject(kind, args))
    /\ setCalls' = Append(setCalls, NoCalls)
    /\ lastOut' = [NoCallOut EXCEPT !.op = "new_exception", !.ret = Len(heap) + 1,
                                    !.nBefore = Len(heap)]
    /\ UNCHANGED <<EXC_URI_MAP, inVars>>

\* a call InvocationError(g.uri, *g.args, kwargs=g.kwargs, details=g.details)
NewInvocationError(g) ==
    /\ Len(heap) < MaxObjs
    /\ LET r == InvocationError(g.uri, g.args, g.kwargs, g.details)
       IN IF r.ok
          THEN /\ heap' = Append(heap, r.obj)
               /\ setCalls' = Append(setCalls, NoCalls)
               /\ lastOut' = [NoCallOut EXCEPT !.op = "InvocationError",
                                 !.ret = Len(heap) + 1, !.given = g,
                                 !.nBefore = Len(heap)]
          ELSE /\ UNCHANGED <<heap, setCalls>>
               /\ lastOut' = [NoCallOut EXCEPT !.op = "InvocationError",
                                 !.status = "raised", !.given = g,
                                 !.nBefore = Len(heap)]
    /\ UNCHANGED <<EXC_URI_MAP, inVars>>

\* the err of the call just made, when that was set_invocation_error on x
PrevErr(x) ==
    IF lastOut.op = "set_invocation_error" /\ lastOut.x = x THEN lastOut.err ELSE 0

\* a call set_invocation_error(x, err)
SetInvocationError(x, err) ==
    /\ isInvocationError(heap[err])
    /\ heap' = set_invocation_error(heap, x, err)
    /\ setCalls' = IF isInvocationError(heap[x]) THEN setCalls
                   ELSE [setCalls EXCEPT ![x] = Remember(@, err)]
    /\ lastOut' = [NoCallOut EXCEPT !.op = "set_invocation_error",
                      !.x = x, !.err = err, !.errBefore = heap[err],
                      !.prev = PrevErr(x),
                      !.prevBefore = IF PrevErr(x) = 0 THEN NoObject
                                     ELSE heap[PrevErr(x)],
                      !.nBefore = Len(heap)]
    /\ UNCHANGED <<EXC_URI_MAP, inVars>>

\* a call exception_to_invocation_error(x)
ExceptionToInvocationError(x) ==
    LET r == exception_to_invocation_error(heap, EXC_URI_MAP, x) IN
    /\ Len(r.heap) <= MaxObjs
    /\ heap' = r.heap
    /\ setCalls' = IF Len(r.heap) > Len(heap) THEN Append(setCalls, NoCalls) ELSE setCalls
    /\ lastOut' = [NoCallOut EXCEPT !.op = "exception_to_invocation_error",
                      !.x = x, !.ret = r.ret, !.status = r.status,
                      !.xBefore = heap[x],
                      !.nBefore = Len(heap)]
    /\ UNCHANGED <<EXC_URI_MAP, inVars>>

-----------------------------------------------------------------------------
(* Specifications                                                           *)

\* the inbound registry in use, no outbound traffic
InitIn ==
    /\ InitInbound
    /\ EXC_URI_MAP = <<>>
    /\ heap = <<>>
    /\ setCalls = <<>>
    /\ lastOut = NoCallOut

NextIn ==
    \/ \E raw \in RawURIs, f \in Factories : Register(raw, f)
    \/ \E m \in MsgIds : ErrorToException(m)

SpecInbound == InitIn /\ [][NextIn]_vars

\* the inbound registry as outbound traffic finds it: empty, or after
\* register_error_response("com.a")(CustomError)
RegisteredBefore == {<<>>, << <<"com.a", "CustomError">> >>}

\* Outbound traffic, for every state of the outbound table
InitOut ==
    /\ InitOutbound
    /\ regLog \in RegisteredBefore
    /\ ERR_RESP_MAP = IF regLog = <<>> THEN <<>>
                      ELSE register_error_response(<<>>, regLog[1][1], regLog[1][2]).map
    /\ lastIn = NoCallIn

NextOut ==
    \/ \E e \in ExcInputs : NewException(e.kind, e.args)
    \/ \E g \in CtorInputs : NewInvocationError(g)
    \/ \E x \in ObjIds, err \in ObjIds : SetInvocationError(x, err)
    \/ \E x \in ObjIds : ExceptionToInvocationError(x)

SpecOutbound == InitOut /\ [][NextOut]_vars


-----------------------------------------------------------------------------
(* Inbound claims (SpecInbound)                                             *)

\* positions of the successful registrations of URI u, in call order
Regs(u) == {i \in 1..Len(regLog) : regLog[i][1] = u}

\* the factory of the most recent registration of u
LatestFactory(u) ==
    regLog[CHOOSE i \in Regs(u) : \A j \in Regs(u) : j <= i][2]

CalledErrorToException == lastIn.op = "error_to_exception"

\* C1: once f is registered for u (and not replaced), error_to_exception(m)
\* with m.error = u ends exactly as the call f(m) ends, whatever f does,
\* a lookup-style error of f included.
C1_FactoryOutcomeIsTheOutcome ==
    (CalledErrorToException /\ Regs(lastIn.uri) # {})
        => lastIn.out = FactoryCall(LatestFactory(lastIn.uri), lastIn.msg)

\* C2: for a message whose error URI was never registered, error_to_exception
\* does not raise and returns an ErrorResponse holding that same message.
C2_UnregisteredGivesErrorResponse ==
    (CalledErrorToException /\ Regs(lastIn.uri) = {})
        => /\ lastIn.out.status = "returned"
           /\ lastIn.out.obj.kind = "ErrorResponse"
           /\ lastIn.out.obj.message = lastIn.msg

C2_Witness ==
    /\ CalledErrorToException
    /\ Regs(lastIn.uri) = {}
    /\ regLog # <<>>
    /\ lastIn.out.obj = ErrorResponse(lastIn.msg)

\* C8: error_to_exception(m) calls the factory of the most recent registration
\* of exactly m.error, and a registration for one URI leaves the factory of
\* every other URI as it was.
C8_LastRegistrationWins ==
    /\ (CalledErrorToException /\ Regs(lastIn.uri) # {})
          => lastIn.out.called = LatestFactory(lastIn.uri)
    /\ lastIn.op = "register"
          => \A u \in RawURIs \ {lastIn.uri} :
                get_exception_factory(ERR_RESP_MAP, u)
                    = get_exception_factory(lastIn.before, u)

C8_Witness ==
    /\ CalledErrorToException
    /\ \E i, j \in Regs(lastIn.uri) : i < j /\ regLog[i][2] # regLog[j][2]
    /\ \E k \in 1..Len(regLog) : regLog[k][1] # lastIn.uri
    /\ lastIn.out.called = regLog[Len(regLog)][2]
    /\ regLog[Len(regLog)][1] # lastIn.uri

\* C10: registering a factory that is not invocable fails with a type error
\* and leaves the registry as it was: every message resolves as before.
C10_NotCallableRejected ==
    (lastIn.op = "register" /\ ~callable(lastIn.factory))
        => /\ lastIn.out.status = "raised"
           /\ as_uri(lastIn.uri).ok => lastIn.out.exc = "TypeError"
           /\ ERR_RESP_MAP = lastIn.before
           /\ \A m \in MsgIds :
                 error_to_exception(ERR_RESP_MAP, m)
                     = error_to_exception(lastIn.before, m)

C10_Witness ==
    /\ lastIn.op = "register"
    /\ ~callable(lastIn.factory)
    /\ lastIn.out.exc = "TypeError"
    /\ Regs(lastIn.uri) # {}
    /\ ERR_RESP_MAP[lastIn.uri] = LatestFactory(lastIn.uri)

-----------------------------------------------------------------------------
(* Outbound claims (SpecOutbound)                                           *)

Converted == lastOut.op = "exception_to_invocation_error"

\* the call converted an exception that is no InvocationError and carries
\* no attached error
ConvertedPlain ==
    /\ Converted
    /\ ~isInvocationError(lastOut.xBefore)
    /\ lastOut.xBefore.attached = {}

\* list(args) or None
ArgsOf(excargs) == IF excargs = <<>> THEN None ELSE Some(excargs)

\* C3: after set_invocation_error(x, e) on an x that is no InvocationError,
\* exception_to_invocation_error(x) returns e itself, whatever the outbound
\* table holds for x's class; of several calls the last one counts.
C3_AttachmentOutranksRegistration ==
    (Converted /\ ~isInvocationError(heap[lastOut.x])
               /\ setCalls[lastOut.x].last # 0)
        => /\ lastOut.status = "returned"
           /\ lastOut.ret = setCalls[lastOut.x].last
           /\ Len(heap) = lastOut.nBefore

C3_Witness ==
    /\ Converted
    /\ ~isInvocationError(heap[lastOut.x])
    /\ setCalls[lastOut.x].replaced
    /\ lastOut.ret = setCalls[lastOut.x].last
    /\ heap[lastOut.x].kind \in DOMAIN EXC_URI_MAP
    /\ EXC_URI_MAP[heap[lastOut.x].kind] # heap[lastOut.ret].uri

\* C4 as stated: for an unattached x of a registered class the result is a new
\* InvocationError with the registered URI, x's positional arguments as args,
\* and neither kwargs nor details.
C4_RegisteredUriWithArgs ==
    (ConvertedPlain /\ lastOut.xBefore.kind \in DOMAIN EXC_URI_MAP)
        => /\ lastOut.status = "returned"
           /\ lastOut.ret = lastOut.nBefore + 1
           /\ isInvocationError(heap[lastOut.ret])
           /\ heap[lastOut.ret].uri = EXC_URI_MAP[lastOut.xBefore.kind]
           /\ heap[lastOut.ret].uri # RUNTIME_ERROR
           /\ heap[lastOut.ret].args = Some(lastOut.xBefore.excargs)
           /\ heap[lastOut.ret].kwargs = None
           /\ heap[lastOut.ret].details = None

\* C4 amended: ... with x's positional arguments as args when x has any and
\* no args (None) when x has none, and neither kwargs nor details.
C4_RegisteredUriOutranksFallback ==
    (ConvertedPlain /\ lastOut.xBefore.kind \in DOMAIN EXC_URI_MAP)
        => /\ lastOut.status = "returned"
           /\ lastOut.ret = lastOut.nBefore + 1
           /\ isInvocationError(heap[lastOut.ret])
           /\ heap[lastOut.ret].uri = EXC_URI_MAP[lastOut.xBefore.kind]
           /\ heap[lastOut.ret].uri # RUNTIME_ERROR
           /\ heap[lastOut.ret].args = ArgsOf(lastOut.xBefore.excargs)
           /\ heap[lastOut.ret].kwargs = None
           /\ heap[lastOut.ret].details = None

C4_Witness ==
    /\ ConvertedPlain
    /\ lastOut.xBefore.kind \in DOMAIN EXC_URI_MAP
    /\ lastOut.xBefore.excargs # <<>>
    /\ heap[lastOut.ret].uri = "com.a"
    /\ heap[lastOut.ret].args = Some(lastOut.xBefore.excargs)

\* C5 as stated: for an unattached x of an unregistered class the call does
\* not raise and the result has the generic runtime-error URI and args equal
\* to x's positional arguments, also when x has none.
C5_FallbackUriWithArgs ==
    (ConvertedPlain /\ lastOut.xBefore.kind \notin DOMAIN EXC_URI_MAP)
        => /\ lastOut.status = "returned"
           /\ isInvocationError(heap[lastOut.ret])
           /\ heap[lastOut.ret].uri = RUNTIME_ERROR
           /\ heap[lastOut.ret].args = Some(lastOut.xBefore.excargs)

\* C5 amended: ... and args equal to x's positional arguments when x has any,
\* and no args (None) when x has none.
C5_FallbackToRuntimeError ==
    (ConvertedPlain /\ lastOut.xBefore.kind \notin DOMAIN EXC_URI_MAP)
        => /\ lastOut.status = "returned"
           /\ isInvocationError(heap[lastOut.ret])
           /\ heap[lastOut.ret].uri = RUNTIME_ERROR
           /\ heap[lastOut.ret].args = ArgsOf(lastOut.xBefore.excargs)

C5_Witness ==
    /\ ConvertedPlain
    /\ lastOut.xBefore.kind \notin DOMAIN EXC_URI_MAP
    /\ lastOut.xBefore.excargs = <<>>
    /\ heap[lastOut.ret].uri = RUNTIME_ERROR
    /\ heap[lastOut.ret].args = None

\* C6: for an x that is an InvocationError, exception_to_invocation_error(x)
\* returns x itself with its fields as they were and builds nothing, whatever
\* the outbound table holds and whatever was set before; converting the
\* result again returns it again.
C6_InvocationErrorReturnedAsIs ==
    (Converted /\ isInvocationError(lastOut.xBefore))
        => /\ lastOut.status = "returned"
           /\ lastOut.ret = lastOut.x
           /\ heap[lastOut.x] = lastOut.xBefore
           /\ Len(heap) = lastOut.nBefore
           /\ exception_to_invocation_error(heap, EXC_URI_MAP, lastOut.ret)
                 = [status |-> "returned", ret |-> lastOut.ret, heap |-> heap]

C6_Witness ==
    /\ Converted
    /\ isInvocationError(heap[lastOut.x])
    /\ lastOut.ret = lastOut.x
    /\ EXC_URI_MAP # <<>>
    /\ DOMAIN ERR_RESP_MAP # {}
    /\ \E y \in ObjIds : setCalls[y].last = lastOut.x

CalledSet == lastOut.op = "set_invocation_error"

\* C7: after set_invocation_error(x, e1) and then set_invocation_error(x, e2)
\* on an InvocationError x, with e1 an object other than x, x has the uri,
\* args, kwargs and details of e2, is the same object, carries no attachment,
\* and e1 and e2 are as they were.
C7_OverwrittenInPlace ==
    (CalledSet /\ isInvocationError(heap[lastOut.x]))
        => /\ Fields(heap[lastOut.x]) = Fields(lastOut.errBefore)
           /\ heap[lastOut.err] = lastOut.errBefore
           /\ heap[lastOut.x].attached = {}
           /\ Len(heap) = lastOut.nBefore
           /\ lastOut.prev \notin {0, lastOut.x}
                 => heap[lastOut.prev] = lastOut.prevBefore

C7_Witness ==
    /\ CalledSet
    /\ isInvocationError(heap[lastOut.x])
    /\ lastOut.prev # 0
    /\ Cardinality({lastOut.x, lastOut.prev, lastOut.err}) = 3
    /\ Fields(lastOut.prevBefore) # Fields(lastOut.errBefore)
    /\ Fields(heap[lastOut.x]) = Fields(heap[lastOut.err])
    /\ Fields(heap[lastOut.x]) # Fields(heap[lastOut.prev])

\* an Optional field that is present holds something
AbsentOrNonEmpty(o) == o = None \/ Truthy(o)

Constructed == lastOut.op = "InvocationError" /\ lastOut.status = "returned"

\* C9: every InvocationError has a non-empty URI, and each of its args, kwargs
\* and details is None or a non-empty container; constructing one with no
\* positional arguments, empty kwargs or empty details gives None there.
C9_NoEmptyButPresentField ==
    /\ \A i \in ObjIds :
          isInvocationError(heap[i])
            => /\ heap[i].uri # ""
               /\ AbsentOrNonEmpty(heap[i].args)
               /\ AbsentOrNonEmpty(heap[i].kwargs)
               /\ AbsentOrNonEmpty(heap[i].details)
    /\ Constructed
          => /\ lastOut.given.args = <<>> => heap[lastOut.ret].args = None
             /\ ~Truthy(lastOut.given.kwargs) => heap[lastOut.ret].kwargs = None
             /\ ~Truthy(lastOut.given.details) => heap[lastOut.ret].details = None

C9_Witness ==
    /\ Constructed
    /\ lastOut.given.args = <<>>
    /\ lastOut.given.kwargs = Some(<<>>)
    /\ lastOut.given.details = Some(<<>>)
    /\ Fields(heap[lastOut.ret])
          = [uri |-> "com.a", args |-> None, kwargs |-> None, details |-> None]

=============================================================================
